---- MODULE Spec2Model ----
(***************************************************************************)
(* A model of the PDF summarizer (src/pdf_summarizer.py).                  *)
(*                                                                         *)
(* A text is a sequence of one-character strings.  The text functions      *)
(* (clean_text, the regex tokenizers, str.split, str.strip) are computed   *)
(* character by character, as the regular expressions of the source do.    *)
(* The summarizers run step by step over the locals of the source.         *)
(***************************************************************************)
EXTENDS Integers, Sequences, FiniteSets, TLC

VARIABLES
    pc,               \* position of the modelled routine
    text,             \* clean_text: the argument
    cleaned,          \* clean_text(text)
    recleaned,        \* clean_text(clean_text(text))
    env,              \* the backend's installation: what imports, is found, downloads
    nltk_data,        \* the backend's data present on disk, by resource
    mode_reported,    \* the mode main shows (lines 265-268)
    uploaded_file,    \* main: the uploaded PDF, or none
    main_text,        \* main: what extract_text_from_pdf returned
    outcome,          \* main: the branch of lines 338-487 taken
    stats,            \* main: word_count and sentence_count (lines 342-343)
    tok_call,         \* the smart tokenizer called last: its name and its argument
    tok_result,       \* what that call gave its caller
    tok_history,      \* for each call so far, whether the backend raised in it
    NLTK_AVAILABLE,   \* the process-wide mode flag (lines 16, 45, 49)
    backend_fails,    \* the linguistic backend raises when it is called
    method,           \* "Extractive" or "Abstractive": the summarizer called
    doc,              \* the summarizer's argument text
    param,            \* num_sentences, or target_length
    s_text,           \* the local text, cleaned
    sentences,        \* the local sentences
    word_freq,        \* extractive: the dict word_freq
    loop_i,           \* extractive: the index i of the scoring loop (0-based)
    position_bonus,   \* extractive: the bonus of the sentence scored last, in tenths
    sentence_scores,  \* extractive: the dict sentence_scores, in insertion order
    top_sentences,    \* extractive: the list heapq.nlargest returns
    summary_idx,      \* extractive: the indices of the sentences appended to the summary
    important_words,  \* budgeted: the set important_words
    scored_sentences, \* budgeted: the list scored_sentences, sorted
    loop_k,           \* budgeted: how many candidates the accumulation loop has taken
    total_words,      \* budgeted: the running total
    summary_parts,    \* summary_sentences, or summary_parts
    result,           \* what the call gave its caller: a string, or an exception
    exception         \* the exception raised inside the try block, if any

varsClean == <<text, cleaned, recleaned>>
varsSetup == <<env, nltk_data, mode_reported>>
varsMain == <<uploaded_file, main_text, outcome, stats>>
varsTok == <<tok_call, tok_result, tok_history>>
varsMode == <<NLTK_AVAILABLE, backend_fails>>
varsArgs == <<method, doc, param>>
varsExt == <<word_freq, loop_i, position_bonus, sentence_scores, top_sentences, summary_idx>>
varsAbs == <<important_words, scored_sentences, loop_k, total_words>>
varsSum == <<s_text, sentences, summary_parts, result, exception>>
vars == <<pc, varsSetup, varsMain, varsClean, varsTok, varsMode, varsArgs, varsExt, varsAbs, varsSum>>

(***************************************************************************)
(* Characters.  Python 3 `re` on str: \s is Unicode whitespace, \w is      *)
(* letters, digits and the underscore.                                     *)
(***************************************************************************)
UpperSeq == <<"A", "B", "C", "D", "E", "F", "G", "H", "I", "J", "K", "L", "M",
              "N", "O", "P", "Q", "R", "S", "T", "U", "V", "W", "X", "Y", "Z">>
LowerSeq == <<"a", "b", "c", "d", "e", "f", "g", "h", "i", "j", "k", "l", "m",
              "n", "o", "p", "q", "r", "s", "t", "u", "v", "w", "x", "y", "z">>
Upper == {UpperSeq[i] : i \in 1..Len(UpperSeq)}
Lower == {LowerSeq[i] : i \in 1..Len(LowerSeq)}
Digit == {"0", "1", "2", "3", "4", "5", "6", "7", "8", "9"}
IsSpace(c) == c \in {" ", "\n", "\t"}
IsAsciiLetter(c) == c \in Upper \cup Lower
IsWordChar(c) == c \in Upper \cup Lower \cup Digit \cup {"_"}
IsTerminal(c) == c \in {".", "!", "?"}
\* the characters the second re.sub of clean_text keeps: [\w\s.,!?;:\-()]
IsKept(c) ==
    IsWordChar(c) \/ IsSpace(c) \/ c \in {".", ",", "!", "?", ";", ":", "-", "(", ")"}

\* the indices of s, in order
Indices(s) == [i \in 1..Len(s) |-> i]

\* str.strip(): leading and trailing whitespace removed
Strip(s) ==
    LET solid == {i \in 1..Len(s) : ~IsSpace(s[i])}
    IN  IF solid = {} THEN <<>>
        ELSE SubSeq(s, CHOOSE i \in solid : \A j \in solid : i <= j,
                       CHOOSE i \in solid : \A j \in solid : j <= i)

\* re.sub(r'\s+', ' ', s): every maximal run of whitespace becomes one space
CollapseWhitespace(s) ==
    LET RunStartOrSolid(i) == ~(IsSpace(s[i]) /\ i > 1 /\ IsSpace(s[i - 1]))
        kept == SelectSeq(Indices(s), RunStartOrSolid)
    IN  [k \in 1..Len(kept) |-> IF IsSpace(s[kept[k]]) THEN " " ELSE s[kept[k]]]

\* re.sub(r'[^\w\s.,!?;:\-()]', '', s): every other character is deleted
RemoveSpecial(s) == SelectSeq(s, IsKept)

clean_text(s) == Strip(RemoveSpecial(CollapseWhitespace(s)))

(***************************************************************************)
(* The regex tokenizers and the string helpers of the summarizers.         *)
(***************************************************************************)
\* str.lower()
ToLower(c) ==
    IF c \in Upper THEN LowerSeq[CHOOSE i \in 1..Len(UpperSeq) : UpperSeq[i] = c] ELSE c
LowerText(s) == [i \in 1..Len(s) |-> ToLower(s[i])]

\* the last index of the maximal run of characters satisfying P that holds index i
RunEnd(s, i, P(_)) ==
    CHOOSE j \in i..Len(s) :
        /\ \A k \in i..j : P(s[k])
        /\ j = Len(s) \/ ~P(s[j + 1])

\* the maximal runs of characters satisfying P, in order
Runs(s, P(_)) ==
    LET IsStart(i) == P(s[i]) /\ (i = 1 \/ ~P(s[i - 1]))
        starts == SelectSeq(Indices(s), IsStart)
    IN  [k \in 1..Len(starts) |-> SubSeq(s, starts[k], RunEnd(s, starts[k], P))]

\* re.split(r'(?<=[.!?])\s+(?=[A-Z])', s): the pieces between the whitespace runs
\* that follow a terminal and precede an ASCII capital
ReSplitSentences(s) ==
    LET IsSeparator(i) ==
            /\ IsSpace(s[i])
            /\ i > 1
            /\ IsTerminal(s[i - 1])
            /\ RunEnd(s, i, IsSpace) < Len(s)
            /\ s[RunEnd(s, i, IsSpace) + 1] \in Upper
        seps == SelectSeq(Indices(s), IsSeparator)
    IN  [k \in 1..(Len(seps) + 1) |->
            SubSeq(s, IF k = 1 THEN 1 ELSE RunEnd(s, seps[k - 1], IsSpace) + 1,
                      IF k <= Len(seps) THEN seps[k] - 1 ELSE Len(s))]

\* the fragments of at most this many characters are discarded
MinSentenceChars == 10

StripAll(pieces) == [k \in 1..Len(pieces) |-> Strip(pieces[k])]
LongEnough(p) == p # <<>> /\ Len(p) > MinSentenceChars

simple_sent_tokenize(s) == SelectSeq(StripAll(ReSplitSentences(s)), LongEnough)

\* re.findall(r'\b[a-zA-Z]{2,}\b', s.lower()): \b stands only at the ends of a
\* maximal run of \w characters, so a match is a whole run, all ASCII letters, of
\* two characters or more
MinWordLetters == 2
IsRegexWord(run) ==
    Len(run) >= MinWordLetters /\ \A k \in 1..Len(run) : IsAsciiLetter(run[k])

simple_word_tokenize(s) == SelectSeq(Runs(LowerText(s), IsWordChar), IsRegexWord)

\* str.split(): the maximal runs of non-whitespace
IsSolid(c) == ~IsSpace(c)
Split(s) == Runs(s, IsSolid)

\* " ".join(parts)
RECURSIVE JoinFrom(_, _, _)
JoinFrom(parts, k, acc) ==
    IF k > Len(parts) THEN acc
    ELSE JoinFrom(parts, k + 1, IF k = 1 THEN parts[k] ELSE acc \o <<" ">> \o parts[k])
Join(parts) == JoinFrom(parts, 1, <<>>)

\* lines 64-77
BASIC_STOPWORDS == {
    <<"i">>, <<"m", "e">>, <<"m", "y">>, <<"m", "y", "s", "e", "l", "f">>, <<"w", "e">>,
    <<"o", "u", "r">>, <<"o", "u", "r", "s">>, <<"o", "u", "r", "s", "e", "l", "v", "e", "s">>,
    <<"y", "o", "u">>, <<"y", "o", "u", "r">>, <<"y", "o", "u", "r", "s">>,
    <<"y", "o", "u", "r", "s", "e", "l", "f">>,
    <<"y", "o", "u", "r", "s", "e", "l", "v", "e", "s">>, <<"h", "e">>, <<"h", "i", "m">>,
    <<"h", "i", "s">>, <<"h", "i", "m", "s", "e", "l", "f">>, <<"s", "h", "e">>,
    <<"h", "e", "r">>, <<"h", "e", "r", "s">>, <<"h", "e", "r", "s", "e", "l", "f">>,
    <<"i", "t">>, <<"i", "t", "s">>, <<"i", "t", "s", "e", "l", "f">>, <<"t", "h", "e", "y">>,
    <<"t", "h", "e", "m">>, <<"t", "h", "e", "i", "r">>, <<"t", "h", "e", "i", "r", "s">>,
    <<"t", "h", "e", "m", "s", "e", "l", "v", "e", "s">>, <<"w", "h", "a", "t">>,
    <<"w", "h", "i", "c", "h">>, <<"w", "h", "o">>, <<"w", "h", "o", "m">>,
    <<"t", "h", "i", "s">>, <<"t", "h", "a", "t">>, <<"t", "h", "e", "s", "e">>,
    <<"t", "h", "o", "s", "e">>, <<"a", "m">>, <<"i", "s">>, <<"a", "r", "e">>,
    <<"w", "a", "s">>, <<"w", "e", "r", "e">>, <<"b", "e">>, <<"b", "e", "e", "n">>,
    <<"b", "e", "i", "n", "g">>, <<"h", "a", "v", "e">>, <<"h", "a", "s">>, <<"h", "a", "d">>,
    <<"h", "a", "v", "i", "n", "g">>, <<"d", "o">>, <<"d", "o", "e", "s">>, <<"d", "i", "d">>,
    <<"d", "o", "i", "n", "g">>, <<"a">>, <<"a", "n">>, <<"t", "h", "e">>, <<"a", "n", "d">>,
    <<"b", "u", "t">>, <<"i", "f">>, <<"o", "r">>, <<"b", "e", "c", "a", "u", "s", "e">>,
    <<"a", "s">>, <<"u", "n", "t", "i", "l">>, <<"w", "h", "i", "l", "e">>, <<"o", "f">>,
    <<"a", "t">>, <<"b", "y">>, <<"f", "o", "r">>, <<"w", "i", "t", "h">>,
    <<"t", "h", "r", "o", "u", "g", "h">>, <<"d", "u", "r", "i", "n", "g">>,
    <<"b", "e", "f", "o", "r", "e">>, <<"a", "f", "t", "e", "r">>, <<"a", "b", "o", "v", "e">>,
    <<"b", "e", "l", "o", "w">>, <<"u", "p">>, <<"d", "o", "w", "n">>, <<"i", "n">>,
    <<"o", "u", "t">>, <<"o", "n">>, <<"o", "f", "f">>, <<"o", "v", "e", "r">>,
    <<"u", "n", "d", "e", "r">>, <<"a", "g", "a", "i", "n">>,
    <<"f", "u", "r", "t", "h", "e", "r">>, <<"t", "h", "e", "n">>, <<"o", "n", "c", "e">>,
    <<"h", "e", "r", "e">>, <<"t", "h", "e", "r", "e">>, <<"w", "h", "e", "n">>,
    <<"w", "h", "e", "r", "e">>, <<"w", "h", "y">>, <<"h", "o", "w">>, <<"a", "l", "l">>,
    <<"a", "n", "y">>, <<"b", "o", "t", "h">>, <<"e", "a", "c", "h">>, <<"f", "e", "w">>,
    <<"m", "o", "r", "e">>, <<"m", "o", "s", "t">>, <<"o", "t", "h", "e", "r">>,
    <<"s", "o", "m", "e">>, <<"s", "u", "c", "h">>, <<"n", "o">>, <<"n", "o", "r">>,
    <<"n", "o", "t">>, <<"o", "n", "l", "y">>, <<"o", "w", "n">>, <<"s", "a", "m", "e">>,
    <<"s", "o">>, <<"t", "h", "a", "n">>, <<"t", "o", "o">>, <<"v", "e", "r", "y">>,
    <<"c", "a", "n">>, <<"w", "i", "l", "l">>, <<"j", "u", "s", "t">>,
    <<"s", "h", "o", "u", "l", "d">>, <<"n", "o", "w">>, <<"c", "o", "u", "l", "d">>,
    <<"w", "o", "u", "l", "d">>, <<"m", "a", "y">>, <<"m", "i", "g", "h", "t">>,
    <<"m", "u", "s", "t">>, <<"s", "h", "a", "l", "l">>
}

(***************************************************************************)
(* The linguistic backend (NLTK) is a library outside the repository.  Its *)
(* three entry points are stood in for by functions that differ from the   *)
(* regex tokenizers the way the library does: the sentence tokenizer       *)
(* splits after every terminal and keeps short sentences, the word         *)
(* tokenizer keeps digits, one-letter words and punctuation tokens, and    *)
(* the stopword corpus is another word list.                               *)
(***************************************************************************)
PunktSplit(s) ==
    LET IsSeparator(i) == IsSpace(s[i]) /\ i > 1 /\ IsTerminal(s[i - 1])
        seps == SelectSeq(Indices(s), IsSeparator)
    IN  [k \in 1..(Len(seps) + 1) |->
            SubSeq(s, IF k = 1 THEN 1 ELSE RunEnd(s, seps[k - 1], IsSpace) + 1,
                      IF k <= Len(seps) THEN seps[k] - 1 ELSE Len(s))]
NonEmpty(p) == p # <<>>
sent_tokenize(s) == SelectSeq(StripAll(PunktSplit(s)), NonEmpty)

word_tokenize(s) ==
    LET IsStart(i) ==
            \/ IsWordChar(s[i]) /\ (i = 1 \/ ~IsWordChar(s[i - 1]))
            \/ ~IsWordChar(s[i]) /\ ~IsSpace(s[i])
        starts == SelectSeq(Indices(s), IsStart)
    IN  [k \in 1..Len(starts) |->
            IF IsWordChar(s[starts[k]])
            THEN SubSeq(s, starts[k], RunEnd(s, starts[k], IsWordChar))
            ELSE <<s[starts[k]]>>]

NLTK_STOPWORDS ==
    (BASIC_STOPWORDS \ {<<"c", "o", "u", "l", "d">>, <<"w", "o", "u", "l", "d">>,
                        <<"m", "a", "y">>, <<"m", "i", "g", "h", "t">>,
                        <<"m", "u", "s", "t">>, <<"s", "h", "a", "l", "l">>})
        \cup {<<"s">>, <<"t">>, <<"d">>, <<"d", "o", "n">>, <<"a", "i", "n">>}

(***************************************************************************)
(* The smart tokenizers (lines 80-108).  A call returns a value or raises: *)
(* [ok |-> TRUE, val |-> v] or [ok |-> FALSE, err |-> description].        *)
(***************************************************************************)
Return(v) == [ok |-> TRUE, val |-> v]
Raise(e) == [ok |-> FALSE, err |-> e]
\* str(e) of the backend's LookupError
BackendError == <<"n", "o", " ", "d", "a", "t", "a">>

\* a call of the backend: a value, or the backend's exception
BackendCall(fails, v) == IF fails THEN Raise(BackendError) ELSE Return(v)

\* a slip: the call of the backend without its except clause
tokenize_sentences_unguarded(t, available, fails) ==
    IF available THEN BackendCall(fails, sent_tokenize(t))
    ELSE Return(simple_sent_tokenize(t))

\* lines 80-88
tokenize_sentences(t, available, fails) ==
    IF available
    THEN LET r == BackendCall(fails, sent_tokenize(t))
         IN  IF r.ok THEN r ELSE Return(simple_sent_tokenize(t))
    ELSE Return(simple_sent_tokenize(t))

\* lines 90-98
tokenize_words(t, available, fails) ==
    IF available
    THEN LET r == BackendCall(fails, word_tokenize(LowerText(t)))
         IN  IF r.ok THEN r ELSE Return(simple_word_tokenize(t))
    ELSE Return(simple_word_tokenize(t))

\* lines 100-108
get_stopwords(available, fails) ==
    IF available
    THEN LET r == BackendCall(fails, NLTK_STOPWORDS)
         IN  IF r.ok THEN r ELSE Return(BASIC_STOPWORDS)
    ELSE Return(BASIC_STOPWORDS)

(***************************************************************************)
(* The summarizers' common parts.                                          *)
(***************************************************************************)
Range(f) == {f[k] : k \in DOMAIN f}
Min(a, b) == IF a <= b THEN a ELSE b

RECURSIVE SumOver(_, _)
SumOver(S, f) ==
    IF S = {} THEN 0 ELSE LET x == CHOOSE x \in S : TRUE IN f[x] + SumOver(S \ {x}, f)

\* str.isalnum(): not empty, letters and digits only
IsAlnum(w) == w # <<>> /\ \A k \in 1..Len(w) : w[k] \in Upper \cup Lower \cup Digit

\* longer than this many characters (lines 154, 212)
MinTokenLen == 2
Qualifies(w, stop_words) == w \notin stop_words /\ Len(w) > MinTokenLen /\ IsAlnum(w)

ErrPrefix == <<"E", "r", "r", "o", "r", " ", "d", "u", "r", "i", "n", "g", " ",
               "s", "u", "m", "m", "a", "r", "i", "z", "a", "t", "i", "o", "n", ":", " ">>

\* a slip: the handler lets the exception go on to the caller
SummarizerReraise(e) == [raised |-> TRUE, val |-> <<>>]

\* except Exception as e: return f"Error during summarization: {str(e)}"
SummarizerExcept(e) == [raised |-> FALSE, val |-> ErrPrefix \o e]

NoResult == [raised |-> FALSE, val |-> <<>>]

\* the words of each sentence, as tokenize_words gives them
SentenceWords(ss, available, fails) ==
    [k \in 1..Len(ss) |-> tokenize_words(ss[k], available, fails)]

(***************************************************************************)
(* extractive_summarize (lines 134-193).                                   *)
(***************************************************************************)
\* a slip: the comparison made strict
ShortCircuitStrict(n, num_sentences) == n < num_sentences

\* line 143
ShortCircuit(n, num_sentences) == n <= num_sentences

\* lines 150-155
CountWords(toks, stop_words) ==
    LET occ == {<<k, j>> \in (1..Len(toks)) \X (1..50) : j <= Len(toks[k])}
        kept == {toks[o[1]][o[2]] : o \in {q \in occ : Qualifies(toks[q[1]][q[2]], stop_words)}}
    IN  [w \in kept |-> Cardinality({o \in occ : toks[o[1]][o[2]] = w})]

\* a slip: the elif branch of the last 30% lost
PositionBonusFirstOnly(pos, n) == IF 10 * pos < 3 * n THEN 12 ELSE 10

\* lines 173-177, in tenths: pos is the 0-based index i, n is len(sentences).
\* i < n * 0.3 and i > n * 0.7 in binary floating point decide as 10 i < 3 n and
\* 10 i > 7 n do, for every n up to 40 at least.
PositionBonus(pos, n) ==
    IF 10 * pos < 3 * n THEN 12
    ELSE IF 10 * pos > 7 * n THEN 11
    ELSE 10

\* sentence_scores[sentence] = value: a new key goes last, an old key keeps its place
DictSet(d, key, num, den) ==
    IF \E k \in 1..Len(d) : d[k].key = key
    THEN [k \in 1..Len(d) |-> IF d[k].key = key THEN [key |-> key, num |-> num, den |-> den]
                                ELSE d[k]]
    ELSE Append(d, [key |-> key, num |-> num, den |-> den])

\* a > b for the scores num/den
Greater(a, b) == a.num * b.den > b.num * a.den

\* heapq.nlargest(n, d, key=d.get): the n keys of the largest values, largest
\* first, equal values in the dict's order
NLargest(n, d) ==
    LET Before(a, b) == Greater(d[a], d[b]) \/ (~Greater(d[b], d[a]) /\ a < b)
        Rank(a) == Cardinality({b \in 1..Len(d) : Before(b, a)})
    IN  [r \in 1..Min(n, Len(d)) |-> d[CHOOSE a \in 1..Len(d) : Rank(a) = r - 1].key]

\* a slip: the top sentences joined as nlargest returns them, best first
ArrangeInScoreOrder(ss, top) ==
    [r \in 1..Len(top) |-> CHOOSE k \in 1..Len(ss) :
                               ss[k] = top[r] /\ \A j \in 1..(k - 1) : ss[j] # top[r]]

\* lines 185-188: the indices of the sentences appended, in the order appended
ArrangeInOriginalOrder(ss, top) ==
    LET InTop(k) == ss[k] \in Range(top) IN SelectSeq(Indices(ss), InTop)

Pick(ss, idx) == [k \in 1..Len(idx) |-> ss[idx[k]]]

(***************************************************************************)
(* A call of a summarizer: the arguments, the mode, and the locals at      *)
(* their values before the first statement.                                *)
(***************************************************************************)
NoException == [raised |-> FALSE, desc |-> <<>>]
\* str(e) of an exception raised inside the try block
FaultDescriptions == {<<>>, <<"o", "u", "t", " ", "o", "f", " ", "m", "e", "m", "o", "r", "y">>}

IdleClean == text = <<>> /\ cleaned = <<>> /\ recleaned = <<>>
Resources == {"punkt_tab", "punkt", "stopwords"}
NoEnv ==
    [import_ok |-> TRUE, found |-> [r \in Resources |-> FALSE],
     download |-> [r \in Resources |-> "ok"]]
IdleSetup ==
    /\ env = NoEnv
    /\ nltk_data = [r \in Resources |-> FALSE]
    /\ mode_reported = "none"
None == [is_none |-> TRUE, val |-> <<>>]
Str(t) == [is_none |-> FALSE, val |-> t]
NoFile == [present |-> FALSE, too_large |-> FALSE, reader_fails |-> "no", pages |-> <<>>]
NoStats == [word_count |-> 0, sentence_count |-> 0]
IdleMain ==
    /\ uploaded_file = NoFile
    /\ main_text = None
    /\ outcome = "none"
    /\ stats = NoStats
NoCall == [fn |-> "none", text |-> <<>>]
IdleTok == tok_call = NoCall /\ tok_result = Return(<<>>) /\ tok_history = <<>>
IdleMode == NLTK_AVAILABLE = FALSE /\ backend_fails = FALSE
IdleArgs == method = "none" /\ doc = <<>> /\ param = 0
FreshExt ==
    /\ word_freq = <<>>
    /\ loop_i = 0
    /\ position_bonus = 0
    /\ sentence_scores = <<>>
    /\ top_sentences = <<>>
    /\ summary_idx = <<>>
FreshAbs ==
    /\ important_words = {}
    /\ scored_sentences = <<>>
    /\ loop_k = 0
    /\ total_words = 0
FreshSum ==
    /\ s_text = <<>>
    /\ sentences = <<>>
    /\ summary_parts = <<>>
    /\ result = NoResult
    /\ exception = NoException

\* either mode; the backend can fail only where it is called
InitMode ==
    /\ NLTK_AVAILABLE \in BOOLEAN
    /\ backend_fails \in (IF NLTK_AVAILABLE THEN BOOLEAN ELSE {FALSE})

\* the except clause of lines 192-193 and 257-258 ends the call
Caught(e) ==
    /\ exception' = [raised |-> TRUE, desc |-> e]
    /\ result' = SummarizerExcept(e)
    /\ pc' = "done"

\* an exception raised by a statement of the try block, whatever raises it
SumFault ==
    /\ pc \notin {"done", "clean", "cleaned", "recleaned"}
    /\ \E e \in FaultDescriptions : Caught(e)
    /\ UNCHANGED <<varsSetup, varsMain, varsClean, varsTok, varsMode, varsArgs, varsExt, varsAbs, s_text, sentences,
                   summary_parts>>

(***************************************************************************)
(* extractive_summarize, statement by statement.                           *)
(***************************************************************************)
\* lines 138-141
ExtPrepare ==
    /\ pc = "ext_start"
    /\ LET ts == tokenize_sentences(clean_text(doc), NLTK_AVAILABLE, backend_fails)
       IN  IF ts.ok
           THEN /\ s_text' = clean_text(doc)
                /\ sentences' = ts.val
                /\ pc' = "ext_tokenized"
                /\ UNCHANGED <<result, exception>>
           ELSE /\ Caught(ts.err)
                /\ UNCHANGED <<s_text, sentences>>
    /\ UNCHANGED <<varsSetup, varsMain, varsClean, varsTok, varsMode, varsArgs, varsAbs, varsExt, summary_parts>>

\* lines 143-144
ExtShortCircuit ==
    /\ pc = "ext_tokenized"
    /\ ShortCircuit(Len(sentences), param)
    /\ summary_idx' = Indices(sentences)
    /\ summary_parts' = sentences
    /\ result' = [raised |-> FALSE, val |-> Join(sentences)]
    /\ pc' = "done"
    /\ UNCHANGED <<varsSetup, varsMain, varsClean, varsTok, varsMode, varsArgs, varsAbs, s_text, sentences, exception,
                   word_freq, loop_i, position_bonus, sentence_scores, top_sentences>>

\* lines 147-155
ExtCountWords ==
    /\ pc = "ext_tokenized"
    /\ ~ShortCircuit(Len(sentences), param)
    /\ LET sw == get_stopwords(NLTK_AVAILABLE, backend_fails)
           toks == SentenceWords(sentences, NLTK_AVAILABLE, backend_fails)
       IN  IF sw.ok /\ \A k \in 1..Len(toks) : toks[k].ok
           THEN /\ word_freq' = CountWords([k \in 1..Len(toks) |-> toks[k].val], sw.val)
                /\ loop_i' = 0
                /\ pc' = "ext_score"
                /\ UNCHANGED <<result, exception>>
           ELSE /\ Caught(BackendError)
                /\ UNCHANGED <<word_freq, loop_i>>
    /\ UNCHANGED <<varsSetup, varsMain, varsClean, varsTok, varsMode, varsArgs, varsAbs, s_text, sentences, summary_parts,
                   position_bonus, sentence_scores, top_sentences, summary_idx>>

\* the words of a sentence that are keys of word_freq, by occurrence (lines 164-167)
ScoredWords(words, wf) == SelectSeq(words, LAMBDA w : w \in DOMAIN wf)
\* score (line 166): the sum of the frequencies over those occurrences
ScoreOf(words, wf) ==
    LET hits == ScoredWords(words, wf)
        times == [w \in Range(hits) |->
                     wf[w] * Cardinality({j \in 1..Len(hits) : hits[j] = w})]
    IN  SumOver(Range(hits), times)

\* lines 159-179: one iteration of the scoring loop
ExtScoreSentence ==
    /\ pc = "ext_score"
    /\ loop_i < Len(sentences)
    /\ LET sentence == sentences[loop_i + 1]
           words == tokenize_words(sentence, NLTK_AVAILABLE, backend_fails)
       IN  IF words.ok
           THEN LET score == ScoreOf(words.val, word_freq)
                    word_count == Len(ScoredWords(words.val, word_freq))
                    bonus == PositionBonus(loop_i, Len(sentences))
                IN  /\ IF word_count > 0
                       THEN /\ position_bonus' = bonus
                            /\ sentence_scores' =
                                   DictSet(sentence_scores, sentence,
                                           score * bonus, word_count * 10)
                       ELSE UNCHANGED <<position_bonus, sentence_scores>>
                    /\ loop_i' = loop_i + 1
                    /\ pc' = "ext_score"
                    /\ UNCHANGED <<result, exception>>
           ELSE /\ Caught(words.err)
                /\ UNCHANGED <<position_bonus, sentence_scores, loop_i>>
    /\ UNCHANGED <<varsSetup, varsMain, varsClean, varsTok, varsMode, varsArgs, varsAbs, s_text, sentences, summary_parts,
                   word_freq, top_sentences, summary_idx>>

\* line 182
ExtSelect ==
    /\ pc = "ext_score"
    /\ loop_i = Len(sentences)
    /\ top_sentences' = NLargest(param, sentence_scores)
    /\ pc' = "ext_arrange"
    /\ UNCHANGED <<varsSetup, varsMain, varsClean, varsTok, varsMode, varsArgs, varsAbs, varsSum,
                   word_freq, loop_i, position_bonus, sentence_scores, summary_idx>>

\* lines 185-190
ExtArrange ==
    /\ pc = "ext_arrange"
    /\ summary_idx' = ArrangeInOriginalOrder(sentences, top_sentences)
    /\ summary_parts' = Pick(sentences, summary_idx')
    /\ result' = [raised |-> FALSE, val |-> Join(summary_parts')]
    /\ pc' = "done"
    /\ UNCHANGED <<varsSetup, varsMain, varsClean, varsTok, varsMode, varsArgs, varsAbs, s_text, sentences, exception,
                   word_freq, loop_i, position_bonus, sentence_scores, top_sentences>>

(***************************************************************************)
(* The documents of the extractive runs: up to MaxSents sentences, each    *)
(* one of ExtPieces (repeats allowed), joined by spaces.  The third piece  *)
(* holds stopwords only.                                                   *)
(***************************************************************************)
MaxSents == 4
MaxNumSentences == 3
ExtPieces == <<
    \* Cats chase mice.
    <<"C", "a", "t", "s", " ", "c", "h", "a", "s", "e", " ", "m", "i", "c", "e", ".">>,
    \* Dogs chase cats and mice.
    <<"D", "o", "g", "s", " ", "c", "h", "a", "s", "e", " ", "c", "a", "t", "s", " ", "a", "n", "d", " ", "m", "i", "c", "e", ".">>,
    \* It is what it is.
    <<"I", "t", " ", "i", "s", " ", "w", "h", "a", "t", " ", "i", "t", " ", "i", "s", ".">>
>>
DocsOf(pieces, maxLen) ==
    {Join(Pick(pieces, f)) : f \in UNION {[1..n -> 1..Len(pieces)] : n \in 1..maxLen}}
ExtDocs == DocsOf(ExtPieces, MaxSents)

InitExt ==
    /\ pc = "ext_start"
    /\ IdleSetup
    /\ IdleMain
    /\ IdleClean
    /\ IdleTok
    /\ InitMode
    /\ method = "Extractive"
    /\ doc \in ExtDocs
    /\ param \in 1..MaxNumSentences
    /\ FreshExt
    /\ FreshAbs
    /\ FreshSum

NextExt ==
    \/ ExtPrepare
    \/ ExtShortCircuit
    \/ ExtCountWords
    \/ ExtScoreSentence
    \/ ExtSelect
    \/ ExtArrange
    \/ SumFault
SpecExt == InitExt /\ [][NextExt]_vars

(***************************************************************************)
(* Properties of extractive_summarize.                                     *)
(***************************************************************************)
ExtReturned == pc = "done" /\ method = "Extractive" /\ ~exception.raised

\* the number of words of the sentence that are keys of word_freq (word_count)
WordCountOf(sentence) ==
    Len(ScoredWords(tokenize_words(sentence, NLTK_AVAILABLE, backend_fails).val, word_freq))

StrictlyAscending(idx) ==
    \A a, b \in 1..Len(idx) : a < b => idx[a] < idx[b]

\* C2: the sentences of an extractive summary stand in ascending original
\* position, on the short-circuit path and on the scored path: the result is
\* the join of the sentences at strictly ascending indices of the tokenized list.
C2_OrderPreserved ==
    ExtReturned =>
        /\ StrictlyAscending(summary_idx)
        /\ \A k \in 1..Len(summary_idx) : summary_idx[k] \in 1..Len(sentences)
        /\ summary_parts = Pick(sentences, summary_idx)
        /\ result.val = Join(summary_parts)

\* a scored run whose best-first order is not the document's order
C2_Witness ==
    /\ ExtReturned
    /\ Len(top_sentences) >= 2
    /\ Len(summary_parts) >= 2
    /\ top_sentences # summary_parts

\* C3: with more sentences than asked for, each with a qualifying token, the
\* summary holds exactly sentence_count sentences, duplicates or not.
C3_ExactCount ==
    (/\ ExtReturned
     /\ Len(sentences) > param
     /\ \A k \in 1..Len(sentences) : WordCountOf(sentences[k]) > 0)
        => Len(summary_parts) = param

\* C9: with no more sentences than asked for, the result is every sentence of
\* the normalized text, unchanged and in order, joined by single spaces, and
\* nothing was scored or selected.
C9_ShortCircuit ==
    (ExtReturned /\ Len(sentences) <= param) =>
        /\ sentences =
               tokenize_sentences(clean_text(doc), NLTK_AVAILABLE, backend_fails).val
        /\ summary_parts = sentences
        /\ result.val = Join(sentences)
        /\ sentence_scores = <<>>
        /\ top_sentences = <<>>

\* a short-circuit run over several sentences, one without a qualifying token
C9_Witness ==
    /\ ExtReturned
    /\ Len(sentences) <= param
    /\ Len(sentences) >= 2
    /\ \E k \in 1..Len(sentences) :
           \A w \in Range(tokenize_words(sentences[k], NLTK_AVAILABLE, backend_fails).val) :
               ~Qualifies(w, get_stopwords(NLTK_AVAILABLE, backend_fails).val)
    /\ result.val = Join(sentences)

\* the sentence the scoring loop has just passed was given a score
JustScored ==
    /\ pc = "ext_score"
    /\ loop_i > 0
    /\ WordCountOf(sentences[loop_i]) > 0

\* C10: the positional multiplier of the sentence at index i of |S| is 1.2 in
\* the first window (i < 0.3 |S|), 1.1 in the last (i > 0.7 |S|), 1.0 otherwise,
\* the two factors multiplied; the score stored is the average frequency
\* times that multiplier.
C10_PositionalMultiplier ==
    JustScored =>
        LET pos == loop_i - 1
            n == Len(sentences)
            first == IF 10 * pos < 3 * n THEN 12 ELSE 10
            last == IF 10 * pos > 7 * n THEN 11 ELSE 10
            sentence == sentences[loop_i]
            words == tokenize_words(sentence, NLTK_AVAILABLE, backend_fails).val
            e == sentence_scores[CHOOSE k \in 1..Len(sentence_scores) :
                                     sentence_scores[k].key = sentence]
        IN  /\ position_bonus * 10 = first * last
            /\ e.num * 100 * WordCountOf(sentence)
                   = ScoreOf(words, word_freq) * first * last * e.den

\* a sentence of the last window scored after sentences of the other two
C10_Witness ==
    /\ JustScored
    /\ loop_i = Len(sentences)
    /\ 10 * (loop_i - 1) > 7 * Len(sentences)
    /\ Len(sentence_scores) >= 2

(***************************************************************************)
(* simple_abstractive_summarize (lines 195-258).                           *)
(***************************************************************************)
\* the characters of the model by code point, for the comparison of strings
CodeOrder == <<"\t", "\n", " ", "!", "(", ")", ",", "-", ".", "0", "1", "2", "3", "4", "5", "6", "7", "8", "9", ":", ";", "?", "@", "A", "B", "C", "D", "E", "F", "G", "H", "I", "J", "K", "L", "M", "N", "O",
              "P", "Q", "R", "S", "T", "U", "V", "W", "X", "Y", "Z", "_", "a", "b", "c", "d", "e", "f", "g", "h", "i", "j", "k", "l", "m", "n", "o", "p", "q", "r", "s", "t", "u", "v", "w", "x", "y", "z">>
Ord(c) == CHOOSE k \in 1..Len(CodeOrder) : CodeOrder[k] = c

\* a > b for Python strings
StrGreater(a, b) ==
    LET diff == {k \in 1..Min(Len(a), Len(b)) : a[k] # b[k]}
    IN  IF diff = {} THEN Len(a) > Len(b)
        ELSE LET d == CHOOSE k \in diff : \A j \in diff : k <= j
             IN  Ord(a[d]) > Ord(b[d])

\* line 216: at most this many words are important
TopWords == 30
\* line 228: the sentences of fewer or of more words are not candidates
MinSentenceWords == 5
MaxSentenceWords == 50
\* line 247: a truncated sentence needs this much of the budget left
MinTruncationRoom == 10

\* lines 212-216: Counter(filtered_words).most_common(30): the keys by count,
\* largest first, equal counts in the order of first occurrence
ImportantWords(words, stop_words) ==
    LET IsFiltered(w) == Qualifies(w, stop_words)
        filtered == SelectSeq(words, IsFiltered)
        IsFirst(j) == \A h \in 1..(j - 1) : filtered[h] # filtered[j]
        keys == SelectSeq(Indices(filtered), IsFirst)
        count == [j \in Range(keys) |->
                     Cardinality({h \in 1..Len(filtered) : filtered[h] = filtered[j]})]
        Before(a, b) == count[a] > count[b] \/ (count[a] = count[b] /\ a < b)
        Rank(a) == Cardinality({b \in Range(keys) : Before(b, a)})
    IN  {filtered[j] : j \in {a \in Range(keys) : Rank(a) < TopWords}}

\* lines 220-231: the candidates, in the order of the sentences
Candidates(ss, toks, important) ==
    LET importance == [k \in 1..Len(ss) |-> Cardinality(Range(toks[k]) \cap important)]
        length == [k \in 1..Len(ss) |-> Len(Split(ss[k]))]
        IsCandidate(k) ==
            /\ MinSentenceWords <= length[k]
            /\ length[k] <= MaxSentenceWords
            /\ importance[k] > 0
        cand == SelectSeq(Indices(ss), IsCandidate)
    IN  [c \in 1..Len(cand) |->
            [num |-> importance[cand[c]], den |-> length[cand[c]],
             sentence |-> ss[cand[c]], length |-> length[cand[c]]]]

\* line 234: sort(reverse=True) of the tuples (score, sentence, length)
SortReverse(l) ==
    LET TupleGreater(a, b) ==
            \/ Greater(a, b)
            \/ ~Greater(b, a) /\ StrGreater(a.sentence, b.sentence)
            \/ ~Greater(b, a) /\ a.sentence = b.sentence /\ a.length > b.length
        Before(a, b) ==
            TupleGreater(l[a], l[b]) \/ (~TupleGreater(l[b], l[a]) /\ a < b)
        Rank(a) == Cardinality({b \in 1..Len(l) : Before(b, a)})
    IN  [r \in 1..Len(l) |-> l[CHOOSE a \in 1..Len(l) : Rank(a) = r - 1]]

\* a slip: the budget tested before the sentence is added
FitsBefore(total, length, target) == total <= target

\* line 241
Fits(total, length, target) == total + length <= target

\* line 244: total_words < target_length * 0.8, which decides as 10 total < 8 target
\* does for every target up to 60 at least
BelowFourFifths(total, target) == 10 * total < 8 * target

Ellipsis == <<".", ".", ".">>
\* lines 248-249
Truncated(sentence, words_remaining) ==
    LET sentence_words == Split(sentence)
    IN  Join(SubSeq(sentence_words, 1, Min(Len(sentence_words), words_remaining - 1)))
            \o Ellipsis

\* lines 198-199
AbsPrepare ==
    /\ pc = "abs_start"
    /\ LET ts == tokenize_sentences(clean_text(doc), NLTK_AVAILABLE, backend_fails)
       IN  IF ts.ok
           THEN /\ s_text' = clean_text(doc)
                /\ sentences' = ts.val
                /\ pc' = "abs_tokenized"
                /\ UNCHANGED <<result, exception>>
           ELSE /\ Caught(ts.err)
                /\ UNCHANGED <<s_text, sentences>>
    /\ UNCHANGED <<varsSetup, varsMain, varsClean, varsTok, varsMode, varsArgs, varsExt, varsAbs, summary_parts>>

\* lines 201-203
AbsReturnWhole ==
    /\ pc = "abs_tokenized"
    /\ Len(Split(s_text)) <= param
    /\ result' = [raised |-> FALSE, val |-> s_text]
    /\ pc' = "done"
    /\ UNCHANGED <<varsSetup, varsMain, varsClean, varsTok, varsMode, varsArgs, varsExt, varsAbs,
                   s_text, sentences, summary_parts, exception>>

\* lines 206-216
AbsKeywords ==
    /\ pc = "abs_tokenized"
    /\ Len(Split(s_text)) > param
    /\ LET sw == get_stopwords(NLTK_AVAILABLE, backend_fails)
           words == tokenize_words(s_text, NLTK_AVAILABLE, backend_fails)
       IN  IF sw.ok /\ words.ok
           THEN /\ important_words' = ImportantWords(words.val, sw.val)
                /\ pc' = "abs_keywords"
                /\ UNCHANGED <<result, exception>>
           ELSE /\ Caught(BackendError)
                /\ UNCHANGED important_words
    /\ UNCHANGED <<varsSetup, varsMain, varsClean, varsTok, varsMode, varsArgs, varsExt, s_text, sentences,
                   summary_parts, scored_sentences, loop_k, total_words>>

\* lines 219-238
AbsScoreSentences ==
    /\ pc = "abs_keywords"
    /\ LET toks == SentenceWords(sentences, NLTK_AVAILABLE, backend_fails)
       IN  IF \A k \in 1..Len(toks) : toks[k].ok
           THEN /\ scored_sentences' =
                       SortReverse(Candidates(sentences,
                                              [k \in 1..Len(toks) |-> toks[k].val],
                                              important_words))
                /\ summary_parts' = <<>>
                /\ total_words' = 0
                /\ loop_k' = 0
                /\ pc' = "abs_loop"
                /\ UNCHANGED <<result, exception>>
           ELSE /\ Caught(BackendError)
                /\ UNCHANGED <<scored_sentences, summary_parts, total_words, loop_k>>
    /\ UNCHANGED <<varsSetup, varsMain, varsClean, varsTok, varsMode, varsArgs, varsExt, s_text, sentences,
                   important_words>>

\* the candidate the loop takes next
Candidate == scored_sentences[loop_k + 1]
InLoop == pc = "abs_loop" /\ loop_k < Len(scored_sentences)

\* lines 241-243
AbsAppend ==
    /\ InLoop
    /\ Fits(total_words, Candidate.length, param)
    /\ summary_parts' = Append(summary_parts, Candidate.sentence)
    /\ total_words' = total_words + Candidate.length
    /\ loop_k' = loop_k + 1
    /\ UNCHANGED <<pc, varsSetup, varsMain, varsClean, varsTok, varsMode, varsArgs, varsExt, s_text, sentences,
                   result, exception, important_words, scored_sentences>>

\* lines 244-251: the truncated sentence is appended and the loop left
AbsTruncate ==
    /\ InLoop
    /\ ~Fits(total_words, Candidate.length, param)
    /\ BelowFourFifths(total_words, param)
    /\ param - total_words >= MinTruncationRoom
    /\ summary_parts' =
           Append(summary_parts, Truncated(Candidate.sentence, param - total_words))
    /\ loop_k' = loop_k + 1
    /\ pc' = "abs_return"
    /\ UNCHANGED <<varsSetup, varsMain, varsClean, varsTok, varsMode, varsArgs, varsExt, s_text, sentences,
                   result, exception, important_words, scored_sentences, total_words>>

\* a slip: a break where the inner `if` has no else, so that the loop is left
\* when a sentence can not be truncated
AbsPassBreak ==
    /\ InLoop
    /\ ~Fits(total_words, Candidate.length, param)
    /\ BelowFourFifths(total_words, param)
    /\ param - total_words < MinTruncationRoom
    /\ loop_k' = loop_k + 1
    /\ pc' = "abs_return"
    /\ UNCHANGED <<varsSetup, varsMain, varsClean, varsTok, varsMode, varsArgs, varsExt, s_text, sentences,
                   result, exception, important_words, scored_sentences, total_words,
                   summary_parts>>

\* lines 244-247: too little room for a truncated sentence; the loop goes on
AbsPass ==
    /\ InLoop
    /\ ~Fits(total_words, Candidate.length, param)
    /\ BelowFourFifths(total_words, param)
    /\ param - total_words < MinTruncationRoom
    /\ loop_k' = loop_k + 1
    /\ UNCHANGED <<pc, varsSetup, varsMain, varsClean, varsTok, varsMode, varsArgs, varsExt, s_text, sentences,
                   result, exception, important_words, scored_sentences, total_words,
                   summary_parts>>

\* lines 252-253
AbsBreak ==
    /\ InLoop
    /\ ~Fits(total_words, Candidate.length, param)
    /\ ~BelowFourFifths(total_words, param)
    /\ loop_k' = loop_k + 1
    /\ pc' = "abs_return"
    /\ UNCHANGED <<varsSetup, varsMain, varsClean, varsTok, varsMode, varsArgs, varsExt, s_text, sentences,
                   result, exception, important_words, scored_sentences, total_words,
                   summary_parts>>

\* line 255
AbsReturn ==
    /\ pc = "abs_return" \/ (pc = "abs_loop" /\ loop_k = Len(scored_sentences))
    /\ result' = [raised |-> FALSE, val |-> Join(summary_parts)]
    /\ pc' = "done"
    /\ UNCHANGED <<varsSetup, varsMain, varsClean, varsTok, varsMode, varsArgs, varsExt, varsAbs,
                   s_text, sentences, summary_parts, exception>>

(***************************************************************************)
(* The documents of the budgeted runs: up to MaxAbsSents sentences, each   *)
(* one of AbsPieces (repeats allowed), and every target up to MaxTarget.   *)
(* The pieces: 5 words, 2 of them keywords; 13 words, all keywords; 4      *)
(* words, too few for a candidate.                                         *)
(***************************************************************************)
MaxAbsSents == 3
MaxTarget == 12
AbsPieces == <<
    \* The cats ran to it.
    <<"T", "h", "e", " ", "c", "a", "t", "s", " ", "r", "a", "n", " ", "t", "o", " ", "i", "t", ".">>,
    \* Cat dog rat bat hen cow pig owl ant bee eel cod emu.
    <<"C", "a", "t", " ", "d", "o", "g", " ", "r", "a", "t", " ", "b", "a", "t", " ", "h", "e", "n", " ", "c", "o", "w", " ", "p", "i", "g", " ", "o", "w", "l", " ", "a", "n", "t", " ", "b", "e", "e", " ", "e", "e", "l", " ", "c", "o", "d", " ", "e", "m", "u", ".">>,
    \* Old birds eat seeds.
    <<"O", "l", "d", " ", "b", "i", "r", "d", "s", " ", "e", "a", "t", " ", "s", "e", "e", "d", "s", ".">>
>>
AbsDocs == DocsOf(AbsPieces, MaxAbsSents)

InitAbs ==
    /\ pc = "abs_start"
    /\ IdleSetup
    /\ IdleMain
    /\ IdleClean
    /\ IdleTok
    /\ InitMode
    /\ method = "Abstractive"
    /\ doc \in AbsDocs
    /\ param \in 1..MaxTarget
    /\ FreshExt
    /\ FreshAbs
    /\ FreshSum

NextAbs ==
    \/ AbsPrepare
    \/ AbsReturnWhole
    \/ AbsKeywords
    \/ AbsScoreSentences
    \/ AbsAppend
    \/ AbsTruncate
    \/ AbsPass
    \/ AbsBreak
    \/ AbsReturn
    \/ SumFault
SpecAbs == InitAbs /\ [][NextAbs]_vars

(***************************************************************************)
(* Properties of simple_abstractive_summarize.                             *)
(***************************************************************************)
AbsReturned == pc = "done" /\ method = "Abstractive" /\ ~exception.raised

EndsWithEllipsis(t) ==
    Len(t) >= Len(Ellipsis) /\ SubSeq(t, Len(t) - Len(Ellipsis) + 1, Len(t)) = Ellipsis

\* C4: when the document has more words than target_words, the running total
\* never exceeds target_words, and neither does the word count of the parts
\* gathered so far nor that of the result, a truncated tail with its ellipsis
\* counted.
C4_BudgetRespected ==
    (method = "Abstractive" /\ Len(Split(clean_text(doc))) > param) =>
        /\ total_words <= param
        /\ Len(Split(Join(summary_parts))) <= param
        /\ AbsReturned => Len(Split(result.val)) <= param

\* a summary that ends in a truncated sentence
C4_Witness ==
    /\ AbsReturned
    /\ Len(Split(clean_text(doc))) > param
    /\ EndsWithEllipsis(result.val)
    /\ Len(Split(result.val)) = param - 1

\* the first words_remaining - 1 words of the candidate and an ellipsis
TruncatedTail(c, words_remaining) ==
    Join(SubSeq(Split(c.sentence), 1, words_remaining - 1)) \o Ellipsis

\* C11 as stated: the first candidate that would overflow target_words ends
\* the accumulation, so every part of the summary is the candidate of its own
\* rank, whole, except a last one truncated to words_remaining - 1 words and
\* an ellipsis (the total below 80% of target_words, 10 words of room or
\* more); no candidate ranked after an overflowing one is in the summary.
C11_FirstOverflowEnds ==
    (method = "Abstractive" /\ ~exception.raised) =>
        \A j \in 1..Len(summary_parts) :
            /\ j <= Len(scored_sentences)
            /\ \/ summary_parts[j] = scored_sentences[j].sentence
               \/ /\ j = Len(summary_parts)
                  /\ pc # "abs_loop"
                  /\ 10 * total_words < 8 * param
                  /\ param - total_words >= 10
                  /\ summary_parts[j] =
                         TruncatedTail(scored_sentences[j], param - total_words)

\* C11, amended: a candidate that would overflow target_words adds nothing to
\* the running total and ends the accumulation, truncated (total below 80% of
\* target_words, 10 words of room or more) or with nothing appended (total at
\* 80% or above), except when the total is below 80% with fewer than 10 words
\* of room: then nothing is appended and the loop goes on to the candidates
\* ranked after it.  Once the accumulation has ended no part is added.
C11_OverflowEndsUnlessNoRoom ==
    [][/\ (InLoop /\ loop_k' = loop_k + 1
              /\ total_words + Candidate.length > param) =>
            /\ total_words' = total_words
            /\ IF 10 * total_words < 8 * param /\ param - total_words >= 10
               THEN /\ summary_parts' =
                           Append(summary_parts,
                                  TruncatedTail(Candidate, param - total_words))
                    /\ pc' = "abs_return"
               ELSE IF 10 * total_words < 8 * param
               THEN /\ summary_parts' = summary_parts
                    /\ pc' = "abs_loop"
               ELSE /\ summary_parts' = summary_parts
                    /\ pc' = "abs_return"
       /\ (InLoop /\ loop_k' = loop_k + 1
              /\ total_words + Candidate.length <= param) =>
            /\ summary_parts' = Append(summary_parts, Candidate.sentence)
            /\ total_words' = total_words + Candidate.length
            /\ pc' = "abs_loop"
       /\ pc \in {"abs_return", "done"} => summary_parts' = summary_parts
      ]_vars

\* a summary whose sentence was added after a higher-ranked candidate that
\* would overflow was passed over
C11_Witness ==
    /\ AbsReturned
    /\ Len(scored_sentences) >= 2
    /\ total_words + scored_sentences[1].length > param
    /\ summary_parts = <<scored_sentences[2].sentence>>
    /\ scored_sentences[2].sentence # scored_sentences[1].sentence
    /\ result.val = scored_sentences[2].sentence

(***************************************************************************)
(* Both summarizers, over short documents: the calls main makes (lines     *)
(* 406-411).                                                               *)
(***************************************************************************)
MaxSumSents == 2

InitSum ==
    /\ IdleSetup
    /\ IdleMain
    /\ IdleClean
    /\ IdleTok
    /\ InitMode
    /\ FreshExt
    /\ FreshAbs
    /\ FreshSum
    /\ \/ /\ method = "Extractive"
          /\ pc = "ext_start"
          /\ doc \in DocsOf(ExtPieces, MaxSumSents)
          /\ param \in 1..MaxNumSentences
       \/ /\ method = "Abstractive"
          /\ pc = "abs_start"
          /\ doc \in DocsOf(AbsPieces, MaxSumSents)
          /\ param \in 1..MaxTarget

NextSum ==
    \/ ExtPrepare
    \/ ExtShortCircuit
    \/ ExtCountWords
    \/ ExtScoreSentence
    \/ ExtSelect
    \/ ExtArrange
    \/ AbsPrepare
    \/ AbsReturnWhole
    \/ AbsKeywords
    \/ AbsScoreSentences
    \/ AbsAppend
    \/ AbsTruncate
    \/ AbsPass
    \/ AbsBreak
    \/ AbsReturn
    \/ SumFault
SpecSum == InitSum /\ [][NextSum]_vars

\* C5: a summarizer never raises to its caller: an exception raised by any
\* statement of the try block ends the call with the string
\* "Error during summarization: " followed by the exception's text, and the
\* loops of a call are bounded by the lists they run over.
C5_NeverRaises ==
    /\ ~result.raised
    /\ (pc = "done" /\ exception.raised) => result.val = ErrPrefix \o exception.desc
    /\ (pc # "done") => (result = NoResult /\ ~exception.raised)
    /\ loop_i <= Len(sentences)
    /\ loop_k <= Len(scored_sentences)

\* an exception with a text, raised after a loop has started
C5_Witness ==
    /\ pc = "done"
    /\ exception.raised
    /\ exception.desc # <<>>
    /\ loop_i > 0 \/ loop_k > 0
    /\ result = [raised |-> FALSE, val |-> ErrPrefix \o exception.desc]

(***************************************************************************)
(* Calls of the smart tokenizers, one after another, in either mode; in    *)
(* linguistic mode the backend raises in a call or does not.               *)
(***************************************************************************)
MaxCalls == 3
TokTexts == {
    \* Cats chase mice. Go now. dogs ran.
    <<"C", "a", "t", "s", " ", "c", "h", "a", "s", "e", " ", "m", "i", "c", "e", ".", " ", "G", "o", " ", "n", "o", "w", ".", " ", "d", "o", "g", "s", " ", "r", "a", "n", ".">>,
    \* Hi. Wow!
    <<"H", "i", ".", " ", "W", "o", "w", "!">>,
    \* A1 cat's x9 DOG_2 ok
    <<"A", "1", " ", "c", "a", "t", "'", "s", " ", "x", "9", " ", "D", "O", "G", "_", "2", " ", "o", "k">>,
    \* 
    <<>>,
    \* Dogs chase cats.\n\nIt is\twhat it is!  Yes.
    <<"D", "o", "g", "s", " ", "c", "h", "a", "s", "e", " ", "c", "a", "t", "s", ".", "\n", "\n", "I", "t", " ", "i", "s", "\t", "w", "h", "a", "t", " ", "i", "t", " ", "i", "s", "!", " ", " ", "Y", "e", "s", ".">>,
    \* no capital here. none at all? no.
    <<"n", "o", " ", "c", "a", "p", "i", "t", "a", "l", " ", "h", "e", "r", "e", ".", " ", "n", "o", "n", "e", " ", "a", "t", " ", "a", "l", "l", "?", " ", "n", "o", ".">>
}

InitTok ==
    /\ pc = "tok"
    /\ IdleSetup
    /\ IdleMain
    /\ IdleClean
    /\ IdleTok
    /\ NLTK_AVAILABLE \in BOOLEAN
    /\ backend_fails = FALSE
    /\ IdleArgs
    /\ FreshExt
    /\ FreshAbs
    /\ FreshSum

\* the backend is called, and can raise, only in linguistic mode
Called(fn, t, fails, r) ==
    /\ pc = "tok"
    /\ Len(tok_history) < MaxCalls
    /\ fails => NLTK_AVAILABLE
    /\ backend_fails' = fails
    /\ tok_call' = [fn |-> fn, text |-> t]
    /\ tok_result' = r
    /\ tok_history' = Append(tok_history, fails)
    /\ UNCHANGED <<pc, varsSetup, varsMain, varsClean, NLTK_AVAILABLE, varsArgs, varsExt,
                   varsAbs, varsSum>>

CallTokenizeSentences ==
    \E t \in TokTexts, fails \in BOOLEAN :
        Called("tokenize_sentences", t, fails, tokenize_sentences(t, NLTK_AVAILABLE, fails))

CallTokenizeWords ==
    \E t \in TokTexts, fails \in BOOLEAN :
        Called("tokenize_words", t, fails, tokenize_words(t, NLTK_AVAILABLE, fails))

CallGetStopwords ==
    \E fails \in BOOLEAN :
        Called("get_stopwords", <<>>, fails, get_stopwords(NLTK_AVAILABLE, fails))

NextTok == CallTokenizeSentences \/ CallTokenizeWords \/ CallGetStopwords
SpecTok == InitTok /\ [][NextTok]_vars

\* what the regex tokenizers, or the built-in stopwords, give for the call
SimpleResult(call) ==
    CASE call.fn = "tokenize_sentences" -> simple_sent_tokenize(call.text)
      [] call.fn = "tokenize_words" -> simple_word_tokenize(call.text)
      [] call.fn = "get_stopwords" -> BASIC_STOPWORDS

\* C7: in linguistic mode a call in which the backend raises returns what the
\* regex tokenizer returns for the same text, or the built-in stopwords, which
\* are not empty, and does not raise, whatever the calls before it did.
C7_PerCallFallback ==
    (NLTK_AVAILABLE /\ tok_call.fn # "none" /\ backend_fails) =>
        /\ tok_result.ok
        /\ tok_result.val = SimpleResult(tok_call)
        /\ tok_call.fn = "get_stopwords" => tok_result.val # {}

\* a failing call after a succeeding and a failing one, whose result is not
\* what the backend would have given
C7_Witness ==
    /\ NLTK_AVAILABLE
    /\ tok_history = <<TRUE, FALSE, TRUE>>
    /\ tok_call.fn = "tokenize_sentences"
    /\ tok_result = Return(simple_sent_tokenize(tok_call.text))
    /\ tok_result.val # sent_tokenize(tok_call.text)

(***************************************************************************)
(* Start-up (lines 15-49): the import, setup_nltk, and the flag.  The      *)
(* backend is a library: a resource is found on disk or not, and           *)
(* nltk.download installs it and returns True ("ok"), returns False with   *)
(* nothing installed ("false"), or raises ("raise").                       *)
(***************************************************************************)
DownloadOutcomes == {"ok", "false", "raise"}
Envs ==
    [import_ok : BOOLEAN, found : [Resources -> BOOLEAN],
     download : [Resources -> DownloadOutcomes]]

InitSetup ==
    /\ pc = "import"
    /\ env \in Envs
    /\ nltk_data = env.found
    /\ mode_reported = "none"
    /\ IdleMain
    /\ IdleClean
    /\ IdleTok
    /\ IdleMode
    /\ IdleArgs
    /\ FreshExt
    /\ FreshAbs
    /\ FreshSum

varsNotSetup == <<varsMain, varsClean, varsTok, backend_fails, varsArgs, varsExt, varsAbs, varsSum>>

\* lines 18-20, then the call of line 44 enters setup_nltk
Import ==
    /\ pc = "import"
    /\ pc' = IF env.import_ok THEN "find_punkt_tab" ELSE "setup_failed"
    /\ UNCHANGED <<varsSetup, NLTK_AVAILABLE, varsNotSetup>>

\* nltk.data.find(resource): returns, or raises LookupError
Find(at, resource, found_pc, missing_pc) ==
    /\ pc = at
    /\ pc' = IF nltk_data[resource] THEN found_pc ELSE missing_pc
    /\ UNCHANGED <<varsSetup, NLTK_AVAILABLE, varsNotSetup>>

\* nltk.download(resource, quiet=True): its return value is not read
Download(at, resource, returned_pc, raised_pc) ==
    /\ pc = at
    /\ nltk_data' = [nltk_data EXCEPT ![resource] = @ \/ env.download[resource] = "ok"]
    /\ pc' = IF env.download[resource] = "raise" THEN raised_pc ELSE returned_pc
    /\ UNCHANGED <<env, mode_reported, NLTK_AVAILABLE, varsNotSetup>>

\* lines 27-30
FindPunktTab == Find("find_punkt_tab", "punkt_tab", "find_stopwords", "download_punkt_tab")
DownloadPunktTab ==
    Download("download_punkt_tab", "punkt_tab", "find_stopwords", "find_punkt")
\* lines 31-36
FindPunkt == Find("find_punkt", "punkt", "find_stopwords", "download_punkt")
DownloadPunkt == Download("download_punkt", "punkt", "find_stopwords", "setup_failed")
\* lines 38-41
FindStopwords == Find("find_stopwords", "stopwords", "setup_done", "download_stopwords")
DownloadStopwords ==
    Download("download_stopwords", "stopwords", "setup_done", "setup_failed")

\* line 45
SetAvailable ==
    /\ pc = "setup_done"
    /\ NLTK_AVAILABLE' = TRUE
    /\ pc' = "main"
    /\ UNCHANGED <<varsSetup, varsNotSetup>>

\* lines 47-49
SetupFailed ==
    /\ pc = "setup_failed"
    /\ NLTK_AVAILABLE' = FALSE
    /\ pc' = "main"
    /\ UNCHANGED <<varsSetup, varsNotSetup>>

\* lines 264-268
ShowStatus ==
    /\ pc = "main"
    /\ mode_reported' = IF NLTK_AVAILABLE THEN "linguistic" ELSE "simple"
    /\ pc' = "shown"
    /\ UNCHANGED <<env, nltk_data, NLTK_AVAILABLE, varsNotSetup>>

NextSetup ==
    \/ Import
    \/ FindPunktTab
    \/ DownloadPunktTab
    \/ FindPunkt
    \/ DownloadPunkt
    \/ FindStopwords
    \/ DownloadStopwords
    \/ SetAvailable
    \/ SetupFailed
    \/ ShowStatus
SpecSetup == InitSetup /\ [][NextSetup]_vars

\* the backend can be used: it imports, and the sentence tokenizer's data and the
\* stopword corpus are on disk
BackendUsable ==
    /\ env.import_ok
    /\ nltk_data["punkt_tab"] \/ nltk_data["punkt"]
    /\ nltk_data["stopwords"]

\* C8: after start-up the flag is True only when the backend is usable: data
\* neither found nor downloaded leaves it False; and the mode shown is the flag.
C8_ModeSelection ==
    /\ pc \in {"main", "shown"} => (NLTK_AVAILABLE => BackendUsable)
    /\ pc = "shown" => (mode_reported = "linguistic") = NLTK_AVAILABLE

(***************************************************************************)
(* main (lines 260-487) from the upload to the call of a summarizer.  A    *)
(* PDF is its pages' texts; the reader raises when it opens the file, or   *)
(* when it extracts a page, or not at all.                                 *)
(***************************************************************************)
MaxPages == 2
PageTexts == {
    \* ''
    <<>>,
    \* ' '
    <<" ">>,
    \* 'Cats chase mice.'
    <<"C", "a", "t", "s", " ", "c", "h", "a", "s", "e", " ", "m", "i", "c", "e", ".">>,
    \* ' \nGo now. It is what it is. '
    <<" ", "\n", "G", "o", " ", "n", "o", "w", ".", " ", "I", "t", " ", "i", "s", " ", "w", "h", "a", "t", " ", "i", "t", " ", "i", "s", ".", " ">>
}
Files ==
    [present : {TRUE}, too_large : BOOLEAN, reader_fails : {"no", "open", "page"},
     pages : UNION {[1..n -> PageTexts] : n \in 0..MaxPages}]

\* the reader raises on this file
ReaderRaises(file) ==
    file.reader_fails = "open" \/ (file.reader_fails = "page" /\ file.pages # <<>>)

\* lines 114-119: the pages that are not empty, a newline after each
RECURSIVE PagesText(_, _, _)
PagesText(pages, k, acc) ==
    IF k > Len(pages) THEN acc
    ELSE PagesText(pages, k + 1,
                   IF pages[k] # <<>> THEN acc \o pages[k] \o <<"\n">> ELSE acc)

\* a slip: the except clause returns the empty string
extract_text_from_pdf_empty(file) ==
    IF ReaderRaises(file) THEN Str(<<>>) ELSE Str(Strip(PagesText(file.pages, 1, <<>>)))

\* lines 110-124
extract_text_from_pdf(file) ==
    IF ReaderRaises(file) THEN None ELSE Str(Strip(PagesText(file.pages, 1, <<>>)))

InitApp ==
    /\ pc = "upload"
    /\ IdleSetup
    /\ IdleMain
    /\ IdleClean
    /\ IdleTok
    /\ InitMode
    /\ IdleArgs
    /\ FreshExt
    /\ FreshAbs
    /\ FreshSum

varsNotMain == <<varsSetup, varsClean, varsTok, varsMode, varsExt, varsAbs, varsSum>>

\* lines 312-318
Upload ==
    /\ pc = "upload"
    /\ uploaded_file' \in Files
    /\ pc' = "uploaded"
    /\ UNCHANGED <<main_text, outcome, stats, varsArgs, varsNotMain>>

\* lines 328-330
RejectLarge ==
    /\ pc = "uploaded"
    /\ uploaded_file.too_large
    /\ outcome' = "too_large"
    /\ pc' = "returned"
    /\ UNCHANGED <<uploaded_file, main_text, stats, varsArgs, varsNotMain>>

\* lines 335-336
Extract ==
    /\ pc = "uploaded"
    /\ ~uploaded_file.too_large
    /\ main_text' = extract_text_from_pdf(uploaded_file)
    /\ pc' = "extracted"
    /\ UNCHANGED <<uploaded_file, outcome, stats, varsArgs, varsNotMain>>

\* line 338: text and len(text.strip()) > 0
HasText(t) == ~t.is_none /\ t.val # <<>> /\ Len(Strip(t.val)) > 0

\* lines 338-343
ShowStatistics ==
    /\ pc = "extracted"
    /\ HasText(main_text)
    /\ outcome' = "extracted"
    /\ stats' = [word_count |-> Len(Split(main_text.val)),
                 sentence_count |->
                     Len(tokenize_sentences(main_text.val, NLTK_AVAILABLE,
                                            backend_fails).val)]
    /\ pc' = "settings"
    /\ UNCHANGED <<uploaded_file, main_text, varsArgs, varsNotMain>>

\* lines 482-484
ShowEmpty ==
    /\ pc = "extracted"
    /\ ~HasText(main_text)
    /\ ~main_text.is_none
    /\ outcome' = "empty"
    /\ pc' = "returned"
    /\ UNCHANGED <<uploaded_file, main_text, stats, varsArgs, varsNotMain>>

\* lines 485-487
ShowCouldNotExtract ==
    /\ pc = "extracted"
    /\ ~HasText(main_text)
    /\ main_text.is_none
    /\ outcome' = "could_not_extract"
    /\ pc' = "returned"
    /\ UNCHANGED <<uploaded_file, main_text, stats, varsArgs, varsNotMain>>

Max(a, b) == IF a >= b THEN a ELSE b
\* lines 377-383: the slider runs from 3 to min(20, max(3, sentence_count // 5))
SentenceSlider(sentence_count) == 3..Min(20, Max(3, sentence_count \div 5))
\* lines 386-392: the slider runs from 100 to min(800, max(100, word_count // 3))
WordSlider(word_count) == 100..Min(800, Max(100, word_count \div 3))

\* lines 396-411: the button calls the summarizer chosen, with the extracted text
Generate ==
    /\ pc = "settings"
    /\ \/ /\ method' = "Extractive"
          /\ param' \in SentenceSlider(stats.sentence_count)
          /\ pc' = "ext_start"
       \/ /\ method' = "Abstractive"
          /\ param' \in WordSlider(stats.word_count)
          /\ pc' = "abs_start"
    /\ doc' = main_text.val
    /\ UNCHANGED <<varsMain, varsNotMain>>

NextApp ==
    \/ Upload
    \/ RejectLarge
    \/ Extract
    \/ ShowStatistics
    \/ ShowEmpty
    \/ ShowCouldNotExtract
    \/ Generate
SpecApp == InitApp /\ [][NextApp]_vars

\* the text of the pages, as the reader gives it when it does not raise
ExtractedText(file) == Strip(PagesText(file.pages, 1, <<>>))

\* C6: the reader raising gives None and the 'could not extract' branch; a
\* text extracted but empty or all whitespace gives the 'empty document'
\* branch; any other text gives the statistics and is the only text a
\* summarizer is called with.
C6_ThreeOutcomes ==
    /\ pc \in {"settings", "returned", "ext_start", "abs_start"} /\ outcome # "too_large" =>
           /\ ReaderRaises(uploaded_file) =>
                  main_text.is_none /\ outcome = "could_not_extract"
           /\ (~ReaderRaises(uploaded_file) /\ ExtractedText(uploaded_file) = <<>>) =>
                  ~main_text.is_none /\ outcome = "empty"
           /\ (~ReaderRaises(uploaded_file) /\ ExtractedText(uploaded_file) # <<>>) =>
                  main_text = Str(ExtractedText(uploaded_file)) /\ outcome = "extracted"
    /\ method # "none" =>
           /\ outcome = "extracted"
           /\ ~main_text.is_none
           /\ doc = main_text.val
           /\ Strip(doc) # <<>>
    /\ stats # NoStats => outcome = "extracted"

\* pages of whitespace only, read without an exception: the 'empty document' branch
C6_Witness ==
    /\ pc = "returned"
    /\ outcome = "empty"
    /\ ~ReaderRaises(uploaded_file)
    /\ \E k \in 1..Len(uploaded_file.pages) : uploaded_file.pages[k] # <<>>

(***************************************************************************)
(* clean_text applied once and again, over every short text of an alphabet *)
(* that holds a letter, two kinds of whitespace, kept punctuation and a    *)
(* deleted character.                                                      *)
(***************************************************************************)
MaxCleanLen == 5
CleanAlphabet == {"a", " ", "\n", "@", "."}
CleanInputs == UNION {[1..n -> CleanAlphabet] : n \in 0..MaxCleanLen}

varsOther == <<varsSetup, varsMain, varsTok, varsMode, varsArgs, varsExt, varsAbs, varsSum>>

InitClean ==
    /\ pc = "clean"
    /\ text \in CleanInputs
    /\ cleaned = <<>>
    /\ recleaned = <<>>
    /\ IdleSetup
    /\ IdleMain
    /\ IdleTok
    /\ IdleMode
    /\ IdleArgs
    /\ FreshExt
    /\ FreshAbs
    /\ FreshSum

CleanOnce ==
    /\ pc = "clean"
    /\ cleaned' = clean_text(text)
    /\ pc' = "cleaned"
    /\ UNCHANGED <<text, recleaned, varsOther>>

CleanAgain ==
    /\ pc = "cleaned"
    /\ recleaned' = clean_text(cleaned)
    /\ pc' = "recleaned"
    /\ UNCHANGED <<text, cleaned, varsOther>>

NextClean == CleanOnce \/ CleanAgain
SpecClean == InitClean /\ [][NextClean]_vars

\* C1: clean_text is idempotent: cleaning a cleaned text changes nothing.
C1_Idempotent == pc = "recleaned" => recleaned = cleaned

====
